---- MODULE Spec2Model ----
(***************************************************************************)
(* Inventory and order management over Firestore (src/firebase_utils.py,   *)
(* src/app.py).  The store holds two collections, 'inventory' and          *)
(* 'orders'.  Streamlit sessions call the FirebaseManager methods; every   *)
(* method but complete_order is a single store request, complete_order is  *)
(* a Firestore transaction (reads, buffered writes, commit, retry).        *)
(***************************************************************************)
EXTENDS Integers, Sequences, FiniteSets, TLC

\* ---------------------------------------------------------------- bounds
MaxQty == 2          \* stock and ingredient quantities range over 0..MaxQty
MaxAttempts == 5     \* db.transaction() default max_attempts

DocIds == {"a", "b"}         \* inventory document ids (custom_id)
Clients == {"s1", "s2"}      \* sessions that may call complete_order
OrderIds == {1, 2}           \* order documents of a behaviour
Created == {1}               \* those that Spec creates with the order form

Quantities == 0..MaxQty
Required == 1..MaxQty        \* number_input(min_value=1) of an ingredient row

\* What the two inventory forms are filled with.  firebase_utils.py:126 relies
\* on the id of an item being its name, so the forms are filled that way here.
FormItems == {[id |-> d, name |-> d] : d \in DocIds}

VARIABLES
    inventory,   \* collection 'inventory': doc id -> [name, quantity]
    orders,      \* collection 'orders': doc id -> [status, ingredients]
    nextOrder,   \* number of the next order document to be added
    tx,          \* per session: the complete_order call in progress
    deducted,    \* history: order id -> item refs a commit decremented for it
    history,     \* history: the store a scenario started from, the mutation it ran
    page         \* per session: what its last handler run was given and showed

vars == <<inventory, orders, nextOrder, tx, deducted, history, page>>
store == <<inventory, orders>>

\* ------------------------------------------------------------- documents
Item(name, quantity) == [name |-> name, quantity |-> quantity]
Ingredient(name, id, quantity) == [name |-> name, id |-> id, quantity |-> quantity]
Order(status, ingredients) == [status |-> status, ingredients |-> ingredients]

\* doc_ref.set(data, merge=True) / collection.add(data)
SetDoc(coll, id, doc) ==
    [x \in DOMAIN coll \cup {id} |-> IF x = id THEN doc ELSE coll[x]]
\* doc_ref.delete()
DeleteDoc(coll, id) == [x \in DOMAIN coll \ {id} |-> coll[x]]

\* ------------------------------------------------- transaction bookkeeping
NoSnap == [exists |-> FALSE, status |-> "", ingredients |-> <<>>]
NoResult == [ok |-> FALSE, kind |-> "", shortfalls |-> <<>>]
IdleTx == [pc |-> "idle", order |-> 0, attempt |-> 0, snap |-> NoSnap, k |-> 0,
           updates |-> <<>>, reads |-> {}, ret |-> "", shortfalls |-> <<>>,
           stale |-> FALSE, result |-> NoResult]

\* A fresh attempt of transaction.run: nothing read, nothing buffered.
Attempt(o, n) == [IdleTx EXCEPT !.pc = "order", !.order = o, !.attempt = n]

\* An attempt that lost a conflict: its commit can only abort, and what it
\* read or buffered is discarded with it, so the rest of its reads are not
\* stepped through.
Doomed(t) ==
    [IdleTx EXCEPT !.pc = "commit", !.order = t.order, !.attempt = t.attempt,
                   !.stale = TRUE]

\* Faulty variant: only writes to the order make an attempt lose; the items
\* are read outside the conflict detection.
InvalidateOrderOnly(t, items, ords) ==
    IF t.pc \in {"items", "commit"} /\ t.order \in ords
    THEN Doomed(t)
    ELSE t

\* A write to a document that a transaction in flight has read makes the
\* attempt lose: the store aborts its commit.
Invalidate(t, items, ords) ==
    IF /\ t.pc \in {"items", "commit"}
       /\ \/ t.reads \cap items # {}
          \/ t.order \in ords
    THEN Doomed(t)
    ELSE t

InvalidateAll(items, ords) == [c \in Clients |-> Invalidate(tx[c], items, ords)]

NoMutation == [op |-> "none", id |-> "", name |-> "", quantity |-> 0, during |-> ""]
NoHistory == [inventory |-> << >>, orders |-> << >>, mutation |-> NoMutation]

\* A handler run, as the session saw it: the handler, what it was given, how
\* it ended and what the notification helper showed.  n tells two runs of
\* the same handler apart.
NoPage == [op |-> "none", n |-> 0, args |-> << >>, outcome |-> "", notice |-> ""]
Shown(op, n, args, outcome, notice) ==
    [op |-> op, n |-> n, args |-> args, outcome |-> outcome, notice |-> notice]

\* The run of a form or button handler in session c replaces what c's page showed.
Run(c, op, args, outcome, notice) ==
    page' = [page EXCEPT ![c] = Shown(op, 1 - page[c].n, args, outcome, notice)]

Init ==
    /\ inventory = << >>
    /\ orders = << >>
    /\ nextOrder = 1
    /\ tx = [c \in Clients |-> IdleTx]
    /\ deducted = [o \in OrderIds |-> {}]
    /\ history = NoHistory
    /\ page = [c \in Clients |-> NoPage]

\* ------------------------------------------------------ inventory methods
\* FirebaseManager.save_inventory_item: set(data, merge=True) on document
\* custom_id; data carries name and quantity, so both are overwritten.
save_inventory_item(id, name, quantity) ==
    /\ inventory' = SetDoc(inventory, id, Item(name, quantity))
    /\ tx' = InvalidateAll({id}, {})
    /\ UNCHANGED <<orders, nextOrder, deducted>>

\* manual_add_form and save_to_db_form: id and name are required, the quantity
\* widget has min_value=0 (manual) or 1 (image analysis).
SaveItem ==
    /\ \E item \in FormItems, quantity \in Quantities :
          save_inventory_item(item.id, item.name, quantity)
    /\ UNCHANGED <<history, page>>

\* FirebaseManager.delete_inventory_item: delete() of the document, present or not.
delete_inventory_item(id) ==
    /\ inventory' = DeleteDoc(inventory, id)
    /\ tx' = InvalidateAll({id}, {})
    /\ UNCHANGED <<orders, nextOrder, deducted>>

\* The delete button lists what get_all_inventory_items returned when the page
\* was drawn, which another session may have deleted since.
DeleteItem ==
    /\ \E id \in DocIds : delete_inventory_item(id)
    /\ UNCHANGED <<history, page>>

\* ---------------------------------------------------------- order methods
\* Faulty variant: the order is written with set() on a fixed document id.
create_order_fixed_id(order_data) ==
    /\ orders' = SetDoc(orders, 1, order_data)
    /\ nextOrder' = nextOrder + 1
    /\ UNCHANGED <<inventory, tx, deducted>>

\* Faulty variant: the stock of the ingredients is taken when the order is created.
create_order_consuming(order_data) ==
    /\ orders' = SetDoc(orders, nextOrder, order_data)
    /\ nextOrder' = nextOrder + 1
    /\ inventory' =
          [id \in DOMAIN inventory |->
             IF /\ inventory[id].quantity > 0
                /\ \E i \in 1..Len(order_data.ingredients) :
                      order_data.ingredients[i].name = id
             THEN [inventory[id] EXCEPT !.quantity = @ - 1]
             ELSE inventory[id]]
    /\ UNCHANGED <<tx, deducted>>

\* FirebaseManager.create_order: collection.add(order_data), a new document id.
create_order(order_data) ==
    /\ orders' = SetDoc(orders, nextOrder, order_data)
    /\ nextOrder' = nextOrder + 1
    /\ UNCHANGED <<inventory, tx, deducted>>

\* inventory_map = {item['name']: item['id'] ...}: the ids a name may map to
\* (one of them when several documents carry the name).
inventory_map(name) == {id \in DOMAIN inventory : inventory[id].name = name}

\* Rows of st.session_state.order_ingredients: a selected name ("" for none)
\* and a quantity; ing['id'] = inventory_map.get(selected_name).
RowCounts == {1, 2}
RowInputs == [name : DocIds \cup {""}, quantity : Required]
FormRows == UNION {[1..n -> RowInputs] : n \in RowCounts}

HasId(ing) == ing.id # "None"

\* valid_ings = [ing for ing in order_ingredients if ing['id']]
valid_ings(rows) == SelectSeq(rows, HasId)

\* order_form submit: the rows get their ids, the rows without id are dropped
\* and the order is created when a valid ingredient is left.
CreateOrder ==
    /\ nextOrder \in Created
    /\ UNCHANGED <<history, page>>
    /\ \E rows \in FormRows :
      \E ids \in [1..Len(rows) -> DocIds \cup {"None"}] :
        /\ \A i \in 1..Len(rows) :
              IF inventory_map(rows[i].name) = {}
              THEN ids[i] = "None"
              ELSE ids[i] \in inventory_map(rows[i].name)
        /\ LET ings == [i \in 1..Len(rows) |->
                          Ingredient(rows[i].name, ids[i], rows[i].quantity)]
           IN /\ valid_ings(ings) # <<>>
              /\ create_order(Order("processing", valid_ings(ings)))

\* Faulty variant: the delete goes to every order that is still 'processing'.
cancel_order_processing(o) ==
    /\ orders' = [x \in {y \in DOMAIN orders : orders[y].status # "processing"}
                     |-> orders[x]]
    /\ tx' = InvalidateAll({}, DOMAIN orders)
    /\ deducted' = [deducted EXCEPT ![o] = {}]
    /\ UNCHANGED <<inventory, nextOrder>>

\* FirebaseManager.cancel_order: delete() of the order document, whatever its status.
cancel_order(o) ==
    /\ orders' = DeleteDoc(orders, o)
    /\ tx' = InvalidateAll({}, {o})
    /\ deducted' = [deducted EXCEPT ![o] = {}]
    /\ UNCHANGED <<inventory, nextOrder>>

\* Order ids a session may hold: every order that was ever listed to it.
KnownOrders == 1..(nextOrder - 1)

CancelOrder ==
    /\ \E o \in KnownOrders : cancel_order(o)
    /\ UNCHANGED <<history, page>>

\* ------------------------------------------------- complete_order, by step
\* complete_order: transaction = self.db.transaction(); transaction.run(...)
\* starts the first attempt.  transaction.run is taken to do what the comment
\* at firebase_utils.py:153 says: it runs the function inside a Firestore
\* transaction (serializable, commit aborted on conflict, run again up to
\* max_attempts times, then an exception).  The Completar button passes an id the session
\* was shown, which may be completed or cancelled by now.
Begin(c, o) ==
    /\ tx[c].pc = "idle"
    /\ tx' = [tx EXCEPT ![c] = Attempt(o, 1)]
    /\ page' = [page EXCEPT ![c] =
                  Shown("Completar", page[c].n, [id |-> o], "spinner", "")]
    /\ UNCHANGED <<inventory, orders, nextOrder, deducted, history>>

\* order_snapshot = order_ref.get(transaction=transaction)
Snapshot(ords, o) ==
    IF o \in DOMAIN ords
    THEN [exists |-> TRUE, status |-> ords[o].status,
          ingredients |-> ords[o].ingredients]
    ELSE NoSnap

\* The for loop is over when k passes the last ingredient: the function then
\* buffers its writes and returns True.
AfterIngredient(t, k) ==
    IF k > Len(t.snap.ingredients)
    THEN [t EXCEPT !.k = k, !.pc = "commit", !.ret = "ok"]
    ELSE [t EXCEPT !.k = k, !.pc = "items"]

\* Faulty variant: order_snapshot.exists is not looked at.
AfterOrderReadUnchecked(t, snap) == AfterIngredient([t EXCEPT !.snap = snap], 1)

\* _complete_order_atomic up to the loop: a missing order returns
\* (False, "El pedido no existe."); the status of the order is not looked at.
AfterOrderRead(t, snap) ==
    IF ~snap.exists
    THEN [t EXCEPT !.snap = snap, !.pc = "commit", !.ret = "noorder"]
    ELSE AfterIngredient([t EXCEPT !.snap = snap], 1)

ReadOrder(c) ==
    /\ tx[c].pc = "order"
    /\ tx' = [tx EXCEPT ![c] = AfterOrderRead(tx[c], Snapshot(orders, tx[c].order))]
    /\ UNCHANGED <<inventory, orders, nextOrder, deducted, history, page>>

\* Faulty variant: the comparison is <= instead of <.
SufficientStrict(current_quantity, required) == ~(current_quantity <= required)

\* Faulty variant: the stock check is missing.
SufficientUnchecked(current_quantity, required) == TRUE

\* if current_quantity < ing['quantity']: return False, "Stock insuficiente ..."
Sufficient(current_quantity, required) == ~(current_quantity < required)

\* new_quantity = current_quantity - ing['quantity']
NewQuantity(current_quantity, required) == current_quantity - required

\* The message of the insufficient-stock return names one ingredient:
\* f"Stock insuficiente para '{name}'. Necesitas {quantity}, tienes {current}."
Shortfall(ing, current_quantity) ==
    [name |-> ing.name, required |-> ing.quantity, available |-> current_quantity]

\* Faulty variant: the item is read with item_ref.get(), outside the transaction.
ReadOutside(reads, ref) == reads

\* item_ref.get(transaction=transaction): the read joins the transaction.
ReadInside(reads, ref) == reads \cup {ref}

\* One pass of the loop body for ingredient t.k: the item is looked up by
\* ing['name'] used as document id, and the first failure returns at once.
AfterItemRead(t, inv) ==
    LET ing == t.snap.ingredients[t.k]
        ref == ing.name
        seen == [t EXCEPT !.reads = ReadInside(@, ref)]
    IN  IF ref \notin DOMAIN inv
        THEN [seen EXCEPT !.pc = "commit", !.ret = "noitem"]
        ELSE IF ~Sufficient(inv[ref].quantity, ing.quantity)
        THEN [seen EXCEPT !.pc = "commit", !.ret = "short",
                          !.shortfalls = <<Shortfall(ing, inv[ref].quantity)>>]
        ELSE AfterIngredient(
                 [seen EXCEPT !.updates = Append(@,
                     [ref |-> ref,
                      quantity |-> NewQuantity(inv[ref].quantity, ing.quantity)])],
                 t.k + 1)

\* for update in inventory_updates: transaction.update(ref, {'quantity': q}),
\* applied in list order when the commit goes through.
RECURSIVE ApplyUpdates(_, _)
ApplyUpdates(inv, updates) ==
    IF updates = <<>>
    THEN inv
    ELSE LET u == Head(updates)
         IN ApplyUpdates([inv EXCEPT ![u.ref].quantity = u.quantity], Tail(updates))

\* Faulty variant: each update is written to the store as soon as it is computed.
ReadItemEager(c) ==
    LET t == AfterItemRead(tx[c], inventory)
    IN  /\ tx[c].pc = "items"
        /\ tx' = [tx EXCEPT ![c] = t]
        /\ inventory' = ApplyUpdates(inventory, t.updates)
        /\ UNCHANGED <<orders, nextOrder, deducted, history, page>>

ReadItem(c) ==
    /\ tx[c].pc = "items"
    /\ tx' = [tx EXCEPT ![c] = AfterItemRead(tx[c], inventory)]
    /\ UNCHANGED <<inventory, orders, nextOrder, deducted, history, page>>

\* transaction.update(order_ref, {'status': 'completed'})
CompleteStatus(ords, o) == [ords EXCEPT ![o].status = "completed"]

UpdateRefs(updates) == {updates[i].ref : i \in 1..Len(updates)}

\* What the caller of complete_order gets.
Returned(t) ==
    [ok |-> t.ret = "ok", kind |-> t.ret, shortfalls |-> t.shortfalls]

Done(t, result) ==
    [IdleTx EXCEPT !.pc = "done", !.order = t.order, !.result = result]

\* Faulty variant: the commit applies the item updates and fails before the status
\* update of the order.
CommitWritesPartial(c) ==
    LET t == tx[c]
    IN  /\ t.pc = "commit"
        /\ ~t.stale
        /\ IF t.ret = "ok"
           THEN /\ inventory' = ApplyUpdates(inventory, t.updates)
                /\ deducted' = [deducted EXCEPT ![t.order] = @ \cup UpdateRefs(t.updates)]
                /\ tx' = [InvalidateAll(UpdateRefs(t.updates), {})
                             EXCEPT ![c] = Done(t, [ok |-> FALSE, kind |-> "error",
                                                    shortfalls |-> <<>>])]
                /\ UNCHANGED orders
           ELSE /\ tx' = [tx EXCEPT ![c] = Done(t, Returned(t))]
                /\ UNCHANGED <<inventory, orders, deducted>>
        /\ UNCHANGED <<nextOrder, history, page>>

\* The commit of an attempt whose reads are still current: the buffered writes
\* of a True return are applied together; a False return buffered none.
CommitWrites(c) ==
    LET t == tx[c]
    IN  /\ t.pc = "commit"
        /\ ~t.stale
        /\ IF t.ret = "ok"
           THEN /\ inventory' = ApplyUpdates(inventory, t.updates)
                /\ orders' = CompleteStatus(orders, t.order)
                /\ deducted' = [deducted EXCEPT ![t.order] = @ \cup UpdateRefs(t.updates)]
                /\ tx' = [InvalidateAll(UpdateRefs(t.updates), {t.order})
                             EXCEPT ![c] = Done(t, Returned(t))]
           ELSE /\ tx' = [tx EXCEPT ![c] = Done(t, Returned(t))]
                /\ UNCHANGED <<inventory, orders, deducted>>
        /\ UNCHANGED <<nextOrder, history, page>>

\* Faulty variant: the retry loop has no bound.
MayRetryAlways(attempt) == TRUE

\* The attempts transaction.run makes before it gives up.
MayRetry(attempt) == attempt < MaxAttempts

\* The commit of an attempt that lost a conflict is aborted and nothing is
\* written: transaction.run runs the function again, or raises after the last
\* attempt, which complete_order turns into (False, "Error en la transaccion").
CommitAborted(c) ==
    LET t == tx[c]
    IN  /\ t.pc = "commit"
        /\ t.stale
        /\ tx' = [tx EXCEPT ![c] =
                    IF MayRetry(t.attempt)
                    THEN Attempt(t.order, t.attempt + 1)
                    ELSE Done(t, [ok |-> FALSE, kind |-> "conflict", shortfalls |-> <<>>])]
        /\ UNCHANGED <<inventory, orders, nextOrder, deducted, history, page>>

\* A store request of the transaction raises (unavailable, timeout): the
\* except clause of complete_order returns (False, "Error en la transaccion").
StoreError(c) ==
    /\ tx[c].pc \in {"order", "items", "commit"}
    /\ tx' = [tx EXCEPT ![c] =
                Done(tx[c], [ok |-> FALSE, kind |-> "error", shortfalls |-> <<>>])]
    /\ UNCHANGED <<inventory, orders, nextOrder, deducted, history, page>>

\* What the Twilio client does in a handler run: the message goes out, the
\* request (or the read of its secrets) raises, or no client was initialised.
Twilio == {"sent", "raises", "no client"}

\* Faulty variant: the try/except around the Twilio request is missing.
enviar_alerta_whatsapp_unguarded(twilio) ==
    IF twilio = "no client" THEN [notice |-> "warning", raised |-> FALSE]
    ELSE IF twilio = "raises" THEN [notice |-> "", raised |-> TRUE]
    ELSE [notice |-> "toast", raised |-> FALSE]

\* enviar_alerta_whatsapp: st.warning without a client, st.toast when the
\* message went out, st.error for any exception; none leaves the function.
enviar_alerta_whatsapp(twilio) ==
    IF twilio = "no client" THEN [notice |-> "warning", raised |-> FALSE]
    ELSE IF twilio = "raises" THEN [notice |-> "error", raised |-> FALSE]
    ELSE [notice |-> "toast", raised |-> FALSE]

\* The Completar handler after complete_order returned: st.success and the
\* alert when success is true, st.warning(message) otherwise.
Completar(c, t, twilio) ==
    LET alert == enviar_alerta_whatsapp(twilio)
    IN  IF t.result.ok
        THEN Shown("Completar", page[c].n, [id |-> t.order],
                   IF alert.raised THEN "exception" ELSE "success", alert.notice)
        ELSE Shown("Completar", page[c].n, [id |-> t.order], "warning", "")

\* A scenario that counts the order-completed alerts that went out keeps the
\* count per order in history.alerts.
Alerted(h, o) ==
    IF "alerts" \in DOMAIN h THEN [h EXCEPT !.alerts[o] = @ + 1] ELSE h

Finish(c) ==
    /\ tx[c].pc = "done"
    /\ tx' = [tx EXCEPT ![c] = IdleTx]
    /\ \E twilio \in Twilio :
          /\ page' = [page EXCEPT ![c] = Completar(c, tx[c], twilio)]
          /\ history' = IF tx[c].result.ok
                           /\ enviar_alerta_whatsapp(twilio).notice = "toast"
                        THEN Alerted(history, tx[c].order)
                        ELSE history
    /\ UNCHANGED <<inventory, orders, nextOrder, deducted>>

CompleteOrder(c) ==
    \/ \E o \in KnownOrders : Begin(c, o)
    \/ ReadOrder(c)
    \/ ReadItem(c)
    \/ CommitWrites(c)
    \/ CommitAborted(c)
    \/ StoreError(c)
    \/ Finish(c)

\* Every form and button of the Inventario and Pedidos pages, interleaved at
\* every step with the complete_order call of one session.
Next ==
    \/ SaveItem
    \/ DeleteItem
    \/ CreateOrder
    \/ CancelOrder
    \/ CompleteOrder("s1")

Spec == Init /\ [][Next]_vars

\* ------------------------------------------------------------- scenarios
\* Stores the program can be in when a scenario starts: items saved with the
\* inventory forms, processing orders created with the order form.
Inventories ==
    UNION {{[id \in D |-> Item(id, q[id])] : q \in [D -> Quantities]} : D \in SUBSET DocIds}
FormIngredients == {Ingredient(d, d, q) : d \in DocIds, q \in Required}
OrderLists == UNION {[1..n -> FormIngredients] : n \in RowCounts}

\* Two sessions press Completar at about the same time, on two processing
\* orders or on the same one; each call runs to its return.
InitRace ==
    /\ inventory \in {inv \in Inventories : DOMAIN inv = DocIds}
    /\ \E l1, l2 \in OrderLists :
          orders = <<Order("processing", l1), Order("processing", l2)>>
    /\ nextOrder = 3
    /\ tx = [c \in Clients |-> IdleTx]
    /\ deducted = [o \in OrderIds |-> {}]
    /\ history = [inventory |-> inventory, orders |-> orders, mutation |-> NoMutation]
    /\ page = [c \in Clients |-> NoPage]

NextRace ==
    \E c \in Clients :
        \/ \E o \in KnownOrders : Begin(c, o)
        \/ ReadOrder(c)
        \/ ReadItem(c)
        \/ CommitWrites(c)
        \/ CommitAborted(c)
        \/ StoreError(c)

SpecRace == InitRace /\ [][NextRace]_vars

\* One session completes order 1 while another session saves or deletes one
\* of its ingredient items, once, at any moment of the call.
InitSer ==
    /\ inventory \in Inventories
    /\ \E l \in OrderLists : orders = <<Order("processing", l)>>
    /\ nextOrder = 2
    /\ tx = [c \in Clients |-> IdleTx]
    /\ deducted = [o \in OrderIds |-> {}]
    /\ history = [inventory |-> inventory, orders |-> orders, mutation |-> NoMutation]
    /\ page = [c \in Clients |-> NoPage]

Mutation(op, id, name, quantity) ==
    [op |-> op, id |-> id, name |-> name, quantity |-> quantity,
     during |-> tx["s1"].pc]

IngredientItems(ords, o) ==
    {ords[o].ingredients[i].name : i \in 1..Len(ords[o].ingredients)}

SaveDuring ==
    /\ history.mutation = NoMutation
    /\ \E item \in FormItems, quantity \in Quantities :
          /\ item.id \in IngredientItems(history.orders, 1)
          /\ save_inventory_item(item.id, item.name, quantity)
          /\ history' = [history EXCEPT
                            !.mutation = Mutation("save", item.id, item.name, quantity)]
    /\ UNCHANGED page

DeleteDuring ==
    /\ history.mutation = NoMutation
    /\ \E id \in IngredientItems(history.orders, 1) :
          /\ delete_inventory_item(id)
          /\ history' = [history EXCEPT !.mutation = Mutation("delete", id, "", 0)]
    /\ UNCHANGED page

NextSer ==
    \/ Begin("s1", 1)
    \/ ReadOrder("s1")
    \/ ReadItem("s1")
    \/ CommitWrites("s1")
    \/ CommitAborted("s1")
    \/ StoreError("s1")
    \/ SaveDuring
    \/ DeleteDuring

SpecSer == InitSer /\ [][NextSer]_vars

\* The Inventario page of one session, handler run by handler run: what is
\* typed into the two add forms (ids and names as typed, blank ones included),
\* the delete button, and a store that may refuse a request.
IdInputs == DocIds \cup {""}
NameInputs == {<< >>, <<" ">>, <<"A", "r", "r", "o", "z">>,
               <<"a", "r", "r", "o", "z", " ">>}

\* manual_add_form submit: st.warning unless id and name are given, else
\* save_inventory_item inside try/except (st.success, or st.error if it raises).
manual_add_form(custom_id, name, quantity, raises) ==
    LET args == [custom_id |-> custom_id, name |-> name, quantity |-> quantity]
        outcome == IF custom_id = "" \/ name = << >> THEN "warning"
                   ELSE IF raises THEN "error" ELSE "saved"
    IN  /\ Run("s1", "manual_add_form", args, outcome, "")
        /\ IF outcome = "saved"
           THEN save_inventory_item(custom_id, name, quantity)
           ELSE UNCHANGED <<inventory, orders, nextOrder, tx, deducted>>
        /\ UNCHANGED history

ManualAdd ==
    \E custom_id \in IdInputs, name \in NameInputs, quantity \in Quantities,
       raises \in BOOLEAN :
        manual_add_form(custom_id, name, quantity, raises)

\* save_to_db_form submit (image analysis): the same check, number_input with
\* min_value=1, and no try/except around save_inventory_item.
save_to_db_form(custom_id, description, quantity, raises) ==
    LET args == [custom_id |-> custom_id, name |-> description, quantity |-> quantity]
        outcome == IF custom_id = "" \/ description = << >> THEN "warning"
                   ELSE IF raises THEN "exception" ELSE "saved"
    IN  /\ Run("s1", "save_to_db_form", args, outcome, "")
        /\ IF outcome = "saved"
           THEN save_inventory_item(custom_id, description, quantity)
           ELSE UNCHANGED <<inventory, orders, nextOrder, tx, deducted>>
        /\ UNCHANGED history

ImageAdd ==
    \E custom_id \in IdInputs, description \in NameInputs, quantity \in Required,
       raises \in BOOLEAN :
        save_to_db_form(custom_id, description, quantity, raises)

NextInventory ==
    \/ ManualAdd
    \/ ImageAdd
    \/ DeleteItem

SpecInventory == Init /\ [][NextInventory]_vars

\* The Pedidos page, handler run by handler run: the page is drawn from three
\* store queries, the order form creates orders, Completar and Cancelar act on
\* the orders the page listed.  A store request may raise, and so may Twilio.
Titles == {"", "Ceviche"}
Prices == {1250}             \* cents; number_input(min_value=0.01)
\* The ingredient rows of this page select item "a" or nothing, one unit each.
PageRowInputs == [name : {"a", ""}, quantity : {1}]
PageRows == UNION {[1..n -> PageRowInputs] : n \in RowCounts}

\* doc.to_dict() with item['id'] = doc.id / order['id'] = doc.id
WithId(doc, id) ==
    [f \in DOMAIN doc \cup {"id"} |-> IF f = "id" THEN id ELSE doc[f]]

\* FirebaseManager.get_all_inventory_items: every document of 'inventory',
\* or [] when the stream raises.
get_all_inventory_items(inv, raises) ==
    IF raises THEN {} ELSE {WithId(inv[id], id) : id \in DOMAIN inv}

\* FirebaseManager.get_orders: the documents of 'orders' with the given status
\* (all of them for None), or [] when the query raises.
get_orders(ords, status, raises) ==
    IF raises
    THEN {}
    ELSE {WithId(ords[o], o) :
            o \in {x \in DOMAIN ords : status = "None" \/ ords[x].status = status}}

\* A run of the page that only draws it (app.py:346, 392, 414).
DrawPedidos ==
    /\ tx["s1"].pc = "idle"
    /\ \E raises \in [{"inventory", "processing", "completed"} -> BOOLEAN] :
          Run("s1", "Pedidos",
              [raises |-> raises,
               inventory_items |->
                   get_all_inventory_items(inventory, raises["inventory"]),
               processing_orders |->
                   get_orders(orders, "processing", raises["processing"]),
               completed_orders |->
                   get_orders(orders, "completed", raises["completed"])],
              "drawn", "")
    /\ UNCHANGED <<inventory, orders, nextOrder, tx, deducted, history>>

\* ing['id'] = inventory_map.get(selected_name), row by row.
Resolved(rows) ==
    {[i \in 1..Len(rows) |-> Ingredient(rows[i].name, ids[i], rows[i].quantity)] :
        ids \in {f \in [1..Len(rows) -> DocIds \cup {"None"}] :
                   \A i \in 1..Len(rows) :
                      IF inventory_map(rows[i].name) = {}
                      THEN f[i] = "None"
                      ELSE f[i] \in inventory_map(rows[i].name)}}

\* order_data of the order form
OrderData(title, price, ingredients) ==
    [title |-> title, price |-> price, ingredients |-> ingredients,
     status |-> "processing"]

\* order_form submit: st.error unless title, price and valid_ings are there;
\* else create_order (which re-raises a store failure), st.success, the alert,
\* and the rows are reset.  history.orders keeps what create_order was handed.
order_form(title, price, ings, raises, twilio) ==
    LET alert == enviar_alerta_whatsapp(twilio)
        rejected == title = "" \/ price <= 0 \/ valid_ings(ings) = << >>
        args == [title |-> title, price |-> price, rows |-> ings, id |-> nextOrder,
                 raises |-> raises,
                 twilio |-> IF rejected \/ raises THEN "not called" ELSE twilio]
        order_data == OrderData(title, price, valid_ings(ings))
    IN  IF rejected \/ raises
        THEN /\ Run("s1", "order_form", args,
                    IF rejected THEN "error" ELSE "exception", "")
             /\ UNCHANGED <<inventory, orders, nextOrder, tx, deducted, history>>
        ELSE /\ create_order(order_data)
             /\ history' = [history EXCEPT !.orders = SetDoc(@, nextOrder, order_data)]
             /\ Run("s1", "order_form", args,
                    IF alert.raised THEN "exception" ELSE "created", alert.notice)

OrderForm ==
    /\ nextOrder \in OrderIds
    /\ tx["s1"].pc = "idle"
    /\ \E title \in Titles, price \in Prices, rows \in PageRows,
          raises \in BOOLEAN, twilio \in Twilio :
        \E ings \in Resolved(rows) : order_form(title, price, ings, raises, twilio)

\* Cancelar button: cancel_order(order['id']) and st.rerun(); the id is one the
\* page listed, and the order may be gone from the store by the time of the call.
Cancelar(o, raises) ==
    /\ Run("s1", "Cancelar", [id |-> o, raises |-> raises],
           IF raises THEN "exception" ELSE "ok", "")
    /\ IF raises
       THEN UNCHANGED <<inventory, orders, nextOrder, tx, deducted>>
       ELSE cancel_order(o)
    /\ UNCHANGED history

CancelButton ==
    /\ tx["s1"].pc = "idle"
    /\ \E o \in KnownOrders, raises \in BOOLEAN : Cancelar(o, raises)

InitPedidos ==
    /\ inventory \in {inv \in Inventories : DOMAIN inv = DocIds}
    /\ orders = << >>
    /\ nextOrder = 1
    /\ tx = [c \in Clients |-> IdleTx]
    /\ deducted = [o \in OrderIds |-> {}]
    /\ history = [inventory |-> inventory, orders |-> << >>, mutation |-> NoMutation]
    /\ page = [c \in Clients |-> NoPage]

\* One session alone never loses a conflict, so no commit is aborted here.
NextPedidos ==
    \/ DrawPedidos
    \/ OrderForm
    \/ CancelButton
    \/ \E o \in KnownOrders : Begin("s1", o)
    \/ ReadOrder("s1")
    \/ ReadItem("s1")
    \/ CommitWrites("s1")
    \/ StoreError("s1")
    \/ Finish("s1")

SpecPedidos == InitPedidos /\ [][NextPedidos]_vars

\* Items saved with an id (SKU) of their own: the add forms take custom_id and
\* name as two inputs, so the name of a document may be another id, or the id
\* of another document.  One order is built from such an inventory with the
\* order form (each row gets the id inventory_map gives its name), and one
\* session completes it.
SkuInventories ==
    UNION {[D -> {Item(name, quantity) : name \in DocIds, quantity \in Quantities}] :
              D \in SUBSET DocIds}

InitSku ==
    /\ inventory \in SkuInventories
    /\ \E rows \in FormRows :
       \E ings \in Resolved(rows) :
          /\ valid_ings(ings) # << >>
          /\ orders = <<Order("processing", valid_ings(ings))>>
    /\ nextOrder = 2
    /\ tx = [c \in Clients |-> IdleTx]
    /\ deducted = [o \in OrderIds |-> {}]
    /\ history = [inventory |-> inventory, orders |-> orders, mutation |-> NoMutation]
    /\ page = [c \in Clients |-> NoPage]

NextSku ==
    \/ Begin("s1", 1)
    \/ ReadOrder("s1")
    \/ ReadItem("s1")
    \/ CommitWrites("s1")
    \/ StoreError("s1")

SpecSku == InitSku /\ [][NextSku]_vars

\* Completar is pressed for one processing order in two sessions, or again in
\* the same session, at any moment; every call runs to its return and its
\* handler to the alert.
InitClicks ==
    /\ inventory \in {inv \in Inventories : DOMAIN inv = DocIds}
    /\ \E l \in {x \in OrderLists : Len(x) = 1} : orders = <<Order("processing", l)>>
    /\ nextOrder = 2
    /\ tx = [c \in Clients |-> IdleTx]
    /\ deducted = [o \in OrderIds |-> {}]
    /\ history = [inventory |-> inventory, orders |-> orders, mutation |-> NoMutation,
                  alerts |-> [o \in OrderIds |-> 0]]
    /\ page = [c \in Clients |-> NoPage]

NextClicks ==
    \E c \in Clients :
        \/ Begin(c, 1)
        \/ ReadOrder(c)
        \/ ReadItem(c)
        \/ CommitWrites(c)
        \/ CommitAborted(c)
        \/ StoreError(c)
        \/ Finish(c)

SpecClicks == InitClicks /\ [][NextClicks]_vars

\* ------------------------------------------------------------ vocabulary
\* A step of session c's own call (a write of another session can only doom it).
OwnStep(c) == tx'[c] # tx[c] /\ (tx'[c].stale => tx[c].stale)

\* The step in which complete_order's commit goes through and returns success.
Commits(c) == tx[c].pc = "commit" /\ tx'[c].pc = "done" /\ tx'[c].result.ok

\* The step in which complete_order returns to its caller.
Returns(c) == tx[c].pc # "done" /\ tx'[c].pc = "done"

Lines(o) == 1..Len(orders[o].ingredients)
IngredientRefs(o) == {orders[o].ingredients[i].name : i \in Lines(o)}

\* Ingredient line ing is short of stock in inventory inv.
Short(ing, inv) == ing.name \in DOMAIN inv /\ inv[ing.name].quantity < ing.quantity

\* ------------------------------------------------------------------ C1
\* C1: in every reachable state every inventory item's quantity is >= 0.
C1_QuantityNonNegative ==
    \A id \in DOMAIN inventory : inventory[id].quantity >= 0

\* A completion has taken an item down to exactly 0.
C1_Witness ==
    \E o \in DOMAIN orders :
        /\ orders[o].status = "completed"
        /\ \E id \in deducted[o] : id \in DOMAIN inventory /\ inventory[id].quantity = 0

\* ------------------------------------------------------------------ C2
\* C2: complete_order is all-or-nothing: no order is 'processing' with an
\* ingredient already decremented for it, and no order is 'completed' with an
\* ingredient not decremented for it, whatever conflict or store error the
\* transaction met.
C2_AllOrNothing ==
    \A o \in DOMAIN orders :
        /\ orders[o].status = "processing" => deducted[o] = {}
        /\ orders[o].status = "completed" => deducted[o] = IngredientRefs(o)

\* A call on a two-item order lost its last conflict at the commit, and the
\* order is still 'processing' with both items at their full quantity.
C2_Witness ==
    \E c \in Clients :
        /\ tx[c].pc = "done"
        /\ tx[c].result.kind = "conflict"
        /\ tx[c].order \in DOMAIN orders
        /\ orders[tx[c].order].status = "processing"
        /\ Cardinality(IngredientRefs(tx[c].order)) = 2
        /\ \A id \in IngredientRefs(tx[c].order) :
              id \in DOMAIN inventory /\ inventory[id].quantity = MaxQty

\* ------------------------------------------------------------------ C3
\* C3: complete_order on an order that is already 'completed' returns success
\* and leaves every inventory quantity as it was (no double deduction).
C3_Idempotent ==
    [][\A c \in Clients :
          (/\ Returns(c)
           /\ tx[c].pc = "commit" /\ ~tx[c].stale
           /\ tx[c].snap.exists /\ tx[c].snap.status = "completed"
           /\ tx'[c].result.kind # "error")
          => (tx'[c].result.ok /\ inventory' = inventory)]_vars

\* ------------------------------------------------------------------ C4
\* What the ingredient lines of a list require of item id, taken together.
RECURSIVE Needs(_, _)
Needs(ingredients, id) ==
    IF ingredients = <<>>
    THEN 0
    ELSE (IF Head(ingredients).name = id THEN Head(ingredients).quantity ELSE 0)
         + Needs(Tail(ingredients), id)

\* Orders o1 and o2 of the starting store share item id, each alone fits its
\* stock and both together exceed it.
JointlyOverdraw(o1, o2, id) ==
    LET stock == history.inventory[id].quantity
        n1 == Needs(history.orders[o1].ingredients, id)
        n2 == Needs(history.orders[o2].ingredients, id)
    IN  /\ n1 > 0 /\ n2 > 0
        /\ n1 <= stock /\ n2 <= stock
        /\ n1 + n2 > stock

BothSucceeded(c1, c2) ==
    /\ tx[c1].pc = "done" /\ tx[c1].result.ok
    /\ tx[c2].pc = "done" /\ tx[c2].result.ok

\* C4: of two concurrent complete_order calls on two different processing
\* orders that jointly overdraw a shared item, at most one succeeds, and the
\* item's quantity is never negative.
C4_AtMostOneWins ==
    /\ \A id \in DOMAIN inventory : inventory[id].quantity >= 0
    /\ \A c1, c2 \in Clients :
          (/\ c1 # c2
           /\ tx[c1].pc = "done" /\ tx[c2].pc = "done"
           /\ tx[c1].order # tx[c2].order
           /\ \E id \in DocIds : JointlyOverdraw(tx[c1].order, tx[c2].order, id))
          => ~BothSucceeded(c1, c2)

\* ------------------------------------------------------------------ C5
\* C5: once an order is 'completed' it stays present and 'completed' through
\* every later operation; cancel_order does not delete it.
C5_CompletedIsFinal ==
    [][\A o \in DOMAIN orders :
          orders[o].status = "completed"
          => (o \in DOMAIN orders' /\ orders'[o].status = "completed")]_vars

\* ------------------------------------------------------------------ C6
\* The shortfalls a complete report would carry: every short ingredient line.
AllShortfalls(ingredients, inv) ==
    {Shortfall(ingredients[i], inv[ingredients[i].name].quantity) :
        i \in {j \in 1..Len(ingredients) : Short(ingredients[j], inv)}}

Reported(result) == {result.shortfalls[i] : i \in 1..Len(result.shortfalls)}

\* C6: an insufficient-stock failure reports every ingredient of the order
\* whose available quantity is below the required one, not only the first.
C6_ReportsEveryShortfall ==
    [][\A c \in Clients :
          (Returns(c) /\ tx'[c].result.kind = "short")
          => Reported(tx'[c].result) = AllShortfalls(tx[c].snap.ingredients, inventory)]_vars

\* ------------------------------------------------------------------ C7
\* C7: when an ingredient line of the order is short of stock, complete_order
\* does not succeed, and a call that does not succeed changes no inventory
\* item and no order at any of its steps.
C7_ShortChangesNothing ==
    [][\A c \in Clients :
          OwnStep(c) =>
            /\ (/\ tx[c].pc = "commit" /\ ~tx[c].stale /\ tx[c].snap.exists
                /\ \E i \in 1..Len(tx[c].snap.ingredients) :
                      Short(tx[c].snap.ingredients[i], inventory))
               => ~Commits(c)
            /\ ~Commits(c) => store' = store]_vars

\* A call failed on the second line of an order whose first line, on another
\* item, was covered: the order is 'processing' and both items are as before.
C7_Witness ==
    \E c \in Clients :
        /\ tx[c].pc = "done" /\ tx[c].result.kind = "short"
        /\ tx[c].order \in DOMAIN orders
        /\ LET ings == orders[tx[c].order].ingredients
           IN /\ Len(ings) = 2
              /\ ings[1].name # ings[2].name
              /\ tx[c].result.shortfalls[1].name = ings[2].name
              /\ ings[1].name \in DOMAIN inventory
              /\ inventory[ings[1].name].quantity = ings[1].quantity
        /\ orders[tx[c].order].status = "processing"

\* ------------------------------------------------------------------ C8
\* C8: when every ingredient line is covered, complete_order on a processing
\* order succeeds, sets the item of each line to available - required, sets
\* the order 'completed' and changes no other item and no other order.
C8_CompletesAndDeducts ==
    [][\A c \in Clients :
          (/\ OwnStep(c)
           /\ tx[c].pc = "commit" /\ ~tx[c].stale
           /\ tx[c].snap.exists /\ tx[c].snap.status = "processing"
           /\ \A i \in 1..Len(tx[c].snap.ingredients) :
                 /\ tx[c].snap.ingredients[i].name \in DOMAIN inventory
                 /\ ~Short(tx[c].snap.ingredients[i], inventory)
           /\ tx'[c].result.kind # "error")
          => LET ings == tx[c].snap.ingredients
                 refs == {ings[i].name : i \in 1..Len(ings)}
             IN /\ Commits(c)
                /\ \A i \in 1..Len(ings) :
                      inventory'[ings[i].name].quantity
                          = inventory[ings[i].name].quantity - ings[i].quantity
                /\ \A id \in DOMAIN inventory \ refs :
                      id \in DOMAIN inventory' /\ inventory'[id] = inventory[id]
                /\ DOMAIN inventory' = DOMAIN inventory
                /\ orders' = CompleteStatus(orders, tx[c].order)]_vars

\* ------------------------------------------------------------------ C9
\* _complete_order_atomic run alone on a store, from its first read to its
\* return: the loop body is applied to one ingredient after the other.
RECURSIVE RunLoop(_, _)
RunLoop(t, inv) ==
    IF t.pc = "items" THEN RunLoop(AfterItemRead(t, inv), inv) ELSE t

\* The store complete_order(o) leaves when nothing else runs during the call.
CompleteAlone(st, o) ==
    LET t == RunLoop(AfterOrderRead(Attempt(o, 1), Snapshot(st.orders, o)), st.inventory)
    IN  IF t.ret = "ok"
        THEN [inventory |-> ApplyUpdates(st.inventory, t.updates),
              orders |-> CompleteStatus(st.orders, o)]
        ELSE st

\* The store the recorded save or delete leaves.
Mutate(st, m) ==
    [st EXCEPT !.inventory =
        IF m.op = "save" THEN SetDoc(@, m.id, Item(m.name, m.quantity))
        ELSE DeleteDoc(@, m.id)]

StartStore == [inventory |-> history.inventory, orders |-> history.orders]
NowStore == [inventory |-> inventory, orders |-> orders]

\* C9: a complete_order interleaved with a save or a delete of one of its
\* ingredient items leaves the store that one of the two serial orders of
\* the two operations leaves.
C9_Serializable ==
    (/\ tx["s1"].pc = "done" /\ tx["s1"].result.kind # "error"
     /\ history.mutation # NoMutation)
    => NowStore \in {CompleteAlone(Mutate(StartStore, history.mutation), 1),
                     Mutate(CompleteAlone(StartStore, 1), history.mutation)}

\* The save landed after the call had read the item and before its commit;
\* the call succeeded, and the item holds the saved quantity less the
\* required one, which the quantity first read would not have given.
C9_Witness ==
    /\ tx["s1"].pc = "done" /\ tx["s1"].result.ok
    /\ history.mutation.op = "save" /\ history.mutation.during = "commit"
    /\ Len(history.orders[1].ingredients) = 1
    /\ LET ing == history.orders[1].ingredients[1]
       IN /\ history.mutation.id = ing.name
          /\ ing.name \in DOMAIN history.inventory
          /\ ing.name \in DOMAIN inventory
          /\ history.mutation.quantity # history.inventory[ing.name].quantity
          /\ inventory[ing.name].quantity = history.mutation.quantity - ing.quantity

\* ------------------------------------------------------------------ C10
\* C10: complete_order makes at most MaxAttempts attempts: the attempt that
\* loses the last conflict returns a failure to the caller, and that return
\* leaves every item and every order as they were.
C10_BoundedRetry ==
    [][\A c \in Clients :
          OwnStep(c) =>
            /\ tx'[c].attempt <= MaxAttempts
            /\ (tx[c].pc = "commit" /\ tx[c].stale /\ ~MayRetry(tx[c].attempt))
               => /\ tx'[c].pc = "done"
                  /\ ~tx'[c].result.ok
                  /\ store' = store /\ deducted' = deducted]_vars

\* A call has returned the conflict failure after its last attempt.
C10_Witness ==
    \E c \in Clients :
        /\ tx[c].pc = "done" /\ tx[c].result.kind = "conflict"
        /\ tx[c].order \in DOMAIN orders
        /\ orders[tx[c].order].status = "processing"

\* ------------------------------------------------------------------ C13
\* The inventory items the returned message names.
NamedItems(result) == {result.shortfalls[i].name : i \in 1..Len(result.shortfalls)}

\* C13: a successful complete_order returns success together with exactly
\* the ingredient items whose new quantity is below the low-stock threshold
\* 10 (and a low quantity never makes the completion fail).
C13_LowStockAdvisory ==
    [][\A c \in Clients :
          (OwnStep(c) /\ Commits(c))
          => /\ tx'[c].result.ok
             /\ NamedItems(tx'[c].result)
                  = {id \in UpdateRefs(tx[c].updates) : inventory'[id].quantity < 10}]_vars

\* ------------------------------------------------------------------ C15
\* C15: a complete_order call on an order id that is not in the store changes
\* no inventory item and no order at any of its steps, and what it returns
\* (store errors and lost conflicts aside) is the not-found failure.
C15_AbsentOrderNotFound ==
    [][\A c \in Clients :
          (OwnStep(c) /\ tx[c].pc # "idle" /\ tx[c].order \notin DOMAIN orders)
          => /\ store' = store /\ deducted' = deducted
             /\ (Returns(c) /\ tx'[c].result.kind \notin {"error", "conflict"})
                => (tx'[c].result.kind = "noorder" /\ ~tx'[c].result.ok)]_vars

\* A call on a cancelled order has returned not-found while the inventory
\* holds stock.
C15_Witness ==
    \E c \in Clients :
        /\ tx[c].pc = "done" /\ tx[c].result.kind = "noorder"
        /\ tx[c].order \notin DOMAIN orders
        /\ \E id \in DOMAIN inventory : inventory[id].quantity > 0

\* ------------------------------------------------------------------ C11
\* Trimming and case-folding of a name, character by character ("A" is the
\* one upper-case letter the forms are filled with).
RECURSIVE lstrip(_)
lstrip(name) ==
    IF name # << >> /\ Head(name) = " " THEN lstrip(Tail(name)) ELSE name
RECURSIVE rstrip(_)
rstrip(name) ==
    IF name # << >> /\ name[Len(name)] = " "
    THEN rstrip(SubSeq(name, 1, Len(name) - 1))
    ELSE name
strip(name) == rstrip(lstrip(name))
casefold(name) == [i \in 1..Len(name) |-> IF name[i] = "A" THEN "a" ELSE name[i]]
Normalize(name) == casefold(strip(name))

\* The records of inv whose name is name, up to trimming and case.
Matching(inv, name) ==
    {id \in DOMAIN inv : Normalize(inv[id].name) = Normalize(name)}

\* A run of one of the two add forms.
AddRun ==
    page'["s1"] # page["s1"] /\ page'["s1"].op \in {"manual_add_form", "save_to_db_form"}

\* C11: adding an item whose (non-blank) name matches, after trimming and
\* case-folding, the name of the one record that carries it, creates no second record: one
\* record carries the name afterwards and its quantity is the old quantity
\* plus the quantity added.
C11_MergesByNormalizedName ==
    [][(/\ AddRun
        /\ page'["s1"].outcome = "saved"
        /\ Normalize(page'["s1"].args.name) # << >>
        /\ Cardinality(Matching(inventory, page'["s1"].args.name)) = 1)
       => /\ Cardinality(Matching(inventory', page'["s1"].args.name)) = 1
          /\ \A old \in Matching(inventory, page'["s1"].args.name) :
             \A new \in Matching(inventory', page'["s1"].args.name) :
                inventory'[new].quantity
                    = inventory[old].quantity + page'["s1"].args.quantity]_vars

\* ------------------------------------------------------------------ C19
\* C19: adding an item with a name that is empty after trimming, or with a
\* quantity <= 0, is rejected and leaves the inventory unchanged.
C19_RejectsBlankNameOrNoQuantity ==
    [][(/\ AddRun
        /\ \/ strip(page'["s1"].args.name) = << >>
           \/ page'["s1"].args.quantity <= 0)
       => (page'["s1"].outcome = "warning" /\ inventory' = inventory)]_vars

\* ------------------------------------------------------------------ C12
\* Runs of the handlers of the Pedidos page in session s1.
PageRun(op) == page'["s1"] # page["s1"] /\ page'["s1"].op = op
Args == page'["s1"].args

\* C12: an order form submitted with an empty title, a price <= 0, no
\* ingredient row, or a row without item id or with a quantity <= 0, is
\* rejected and creates no order (not even one of the valid rows only).
C12_InvalidOrderRejected ==
    [][(/\ PageRun("order_form")
        /\ \/ Args.title = ""
           \/ Args.price <= 0
           \/ Args.rows = << >>
           \/ \E i \in 1..Len(Args.rows) :
                 ~HasId(Args.rows[i]) \/ Args.rows[i].quantity <= 0)
       => (page'["s1"].outcome = "error" /\ orders' = orders)]_vars

\* ------------------------------------------------------------------ C14
\* C14: cancel_order on an order id that is not in the store is not reported
\* as a successful cancellation, and changes no order and no inventory item.
C14_CancelAbsentNotFound ==
    [][(PageRun("Cancelar") /\ Args.id \notin DOMAIN orders)
       => (page'["s1"].outcome # "ok" /\ store' = store)]_vars

\* ------------------------------------------------------------------ C16
\* C16: whatever the Twilio client does (sends, raises, is missing), a valid
\* order form that the store accepts ends as created with the order stored
\* as 'processing', and the handler of a successful complete_order ends as
\* success with the store as the commit left it.
C16_NotificationNeverBlocks ==
    [][/\ (/\ PageRun("order_form")
           /\ page'["s1"].outcome # "error"
           /\ ~Args.raises)
          => /\ page'["s1"].outcome = "created"
             /\ Args.id \in DOMAIN orders' \ DOMAIN orders
             /\ orders'[Args.id].status = "processing"
       /\ (tx["s1"].pc = "done" /\ tx'["s1"].pc = "idle" /\ tx["s1"].result.ok)
          => /\ page'["s1"].outcome = "success"
             /\ store' = store
             /\ orders[tx["s1"].order].status = "completed"]_vars

\* The Twilio request raised after a successful completion: the page shows
\* the success and the Twilio error, and the order is 'completed'.
C16_Witness ==
    /\ page["s1"].op = "Completar"
    /\ page["s1"].outcome = "success" /\ page["s1"].notice = "error"
    /\ page["s1"].args.id \in DOMAIN orders
    /\ orders[page["s1"].args.id].status = "completed"
    /\ deducted[page["s1"].args.id] # {}

\* ------------------------------------------------------------------ C17
\* C17: when the store fails during get_orders or get_all_inventory_items,
\* what the caller gets differs from what a served call on an empty
\* collection returns.
C17_StoreFailureSurfaced ==
    page["s1"].op = "Pedidos"
    => LET a == page["s1"].args
       IN /\ a.raises["processing"]
             => a.processing_orders # get_orders(<< >>, "processing", FALSE)
          /\ a.raises["completed"]
             => a.completed_orders # get_orders(<< >>, "completed", FALSE)
          /\ a.raises["inventory"]
             => a.inventory_items # get_all_inventory_items(<< >>, FALSE)

\* ------------------------------------------------------------------ C18
\* Order o is in get_orders('processing') with the title, the price and the
\* ingredients that create_order was handed, and with status 'processing'.
Listed(ords, created, o) ==
    \E r \in get_orders(ords, "processing", FALSE) :
        /\ r.id = o
        /\ r.title = created[o].title
        /\ r.price = created[o].price
        /\ r.ingredients = created[o].ingredients
        /\ r.status = "processing"

\* The step completes or cancels order o.
Closes(o) ==
    \/ PageRun("Cancelar") /\ Args.id = o
    \/ Commits("s1") /\ tx["s1"].order = o

\* C18: an order is listed by a get_orders('processing') that the store
\* serves, with the fields it was created with, from the step create_order
\* succeeds until the step that completes or cancels it.
C18_RoundTrip ==
    [][/\ (PageRun("order_form") /\ page'["s1"].outcome = "created")
          => Listed(orders', history'.orders, Args.id)
       /\ \A o \in DOMAIN history.orders :
             (Listed(orders, history.orders, o) /\ ~Closes(o))
             => Listed(orders', history'.orders, o)]_vars

\* The page was drawn, its query served, after two orders were created and
\* the first one completed: the list it shows holds order 2 as created.
C18_Witness ==
    /\ page["s1"].op = "Pedidos" /\ ~page["s1"].args.raises["processing"]
    /\ DOMAIN orders = {1, 2}
    /\ orders[1].status = "completed"
    /\ WithId(history.orders[2], 2) \in page["s1"].args.processing_orders

\* ------------------------------------------------------------------ C20
\* C20: create_order adds one order, with status 'processing', and leaves
\* every inventory item and every other order as they were.
C20_CreateChangesNothingElse ==
    [][(PageRun("order_form") /\ page'["s1"].outcome = "created")
       => /\ inventory' = inventory
          /\ DOMAIN orders' = DOMAIN orders \cup {Args.id}
          /\ Args.id \notin DOMAIN orders
          /\ orders'[Args.id].status = "processing"
          /\ \A o \in DOMAIN orders : orders'[o] = orders[o]]_vars

\* A second order on item a was created while the first is still
\* 'processing' and a is fully stocked.
C20_Witness ==
    /\ page["s1"].op = "order_form" /\ page["s1"].outcome = "created"
    /\ page["s1"].args.id = 2
    /\ DOMAIN orders = {1, 2}
    /\ orders[1].status = "processing" /\ orders[2].status = "processing"
    /\ inventory["a"].quantity = MaxQty
    /\ inventory = history.inventory

\* ------------------------------------------------------------------ C21
\* C21: cancel_order on a processing order removes that order and nothing
\* else: get_orders(None) no longer returns it, and every inventory item and
\* every other order is as before.
C21_CancelRemovesOnlyThatOrder ==
    [][(/\ PageRun("Cancelar")
        /\ ~Args.raises
        /\ Args.id \in DOMAIN orders
        /\ orders[Args.id].status = "processing")
       => /\ \A r \in get_orders(orders', "None", FALSE) : r.id # Args.id
          /\ DOMAIN orders' = DOMAIN orders \ {Args.id}
          /\ \A o \in DOMAIN orders' : orders'[o] = orders[o]
          /\ inventory' = inventory]_vars

\* Order 1 was cancelled while 'processing'; order 2, also 'processing', is
\* still listed and the inventory is the one the page started with.
C21_Witness ==
    /\ page["s1"].op = "Cancelar" /\ page["s1"].outcome = "ok"
    /\ page["s1"].args.id = 1
    /\ 1 \in DOMAIN history.orders
    /\ DOMAIN orders = {2}
    /\ orders[2].status = "processing"
    /\ WithId(history.orders[2], 2) \in get_orders(orders, "None", FALSE)
    /\ inventory = history.inventory
    /\ deducted[1] = {}

\* ------------------------------------------------------------------ C22
\* Line i is the only line of the ingredient list that names its item.
OnlyLine(ingredients, i) ==
    \A j \in 1..Len(ingredients) : ingredients[j].name = ingredients[i].name => j = i

C24_DuplicateLinesSum ==
    [][\A c \in Clients :
          (OwnStep(c) /\ Commits(c))
          => \A id \in UpdateRefs(tx[c].updates) :
                /\ Needs(tx[c].snap.ingredients, id) <= inventory[id].quantity
                /\ inventory'[id].quantity
                      = inventory[id].quantity - Needs(tx[c].snap.ingredients, id)]_vars

\* ------------------------------------------------------------------ C25
\* C25: complete_order never creates an inventory item, and a call that
\* comes to its commit while an item of its order is missing from the
\* inventory (deleted before or during the call) fails and leaves every
\* item and the order as they were.
C25_DeletedItemFailsCleanly ==
    [][\A c \in Clients :
          OwnStep(c) =>
            /\ DOMAIN inventory' = DOMAIN inventory
            /\ (/\ tx[c].pc = "commit" /\ ~tx[c].stale /\ tx[c].snap.exists
                /\ \E i \in 1..Len(tx[c].snap.ingredients) :
                      tx[c].snap.ingredients[i].name \notin DOMAIN inventory)
               => /\ ~tx'[c].result.ok
                  /\ store' = store /\ deducted' = deducted]_vars

\* The second item of a two-item order was deleted; the call returned the
\* missing-ingredient failure, the order is 'processing', the first item
\* still holds what the order requires of it and the second is not there.
C25_Witness ==
    \E c \in Clients :
        /\ tx[c].pc = "done" /\ tx[c].result.kind = "noitem"
        /\ tx[c].order \in DOMAIN orders
        /\ orders[tx[c].order].status = "processing"
        /\ LET ings == orders[tx[c].order].ingredients
           IN /\ Len(ings) = 2
              /\ ings[1].name # ings[2].name
              /\ ings[1].name \in DOMAIN inventory
              /\ inventory[ings[1].name].quantity = ings[1].quantity
              /\ ings[2].name \notin DOMAIN inventory

\* ------------------------------------------------------------------ C23
\* The inventory documents the rows of an order were created against.
IngredientIds(ingredients) == {ingredients[i].id : i \in 1..Len(ingredients)}

\* C23: complete_order resolves every ingredient to the record whose id the
\* order form stored in it: when each of these records covers its line the
\* call succeeds, and a success decrements these records and no other.
C23_ResolvesByItemId ==
    (tx["s1"].pc = "done" /\ tx["s1"].result.kind # "error")
    => LET ings == history.orders[1].ingredients
       IN /\ (\A i \in 1..Len(ings) :
                 /\ ings[i].id \in DOMAIN history.inventory
                 /\ history.inventory[ings[i].id].quantity >= ings[i].quantity)
             => tx["s1"].result.ok
          /\ tx["s1"].result.ok
             => /\ \A id \in IngredientIds(ings) :
                      inventory[id].quantity < history.inventory[id].quantity
                /\ \A id \in DOMAIN inventory \ IngredientIds(ings) :
                      inventory[id] = history.inventory[id]

\* ------------------------------------------------------------------ C26
\* C26: an order-completed alert for an order goes out only from a handler
\* whose complete_order call returned success for that order, and only if
\* none went out for that order before.
C26_AlertOncePerOrder ==
    [][\A o \in DOMAIN history.alerts :
          history'.alerts[o] # history.alerts[o]
          => /\ \E c \in Clients :
                   /\ tx[c].pc = "done" /\ tx'[c].pc = "idle"
                   /\ tx[c].order = o /\ tx[c].result.ok
             /\ history.alerts[o] = 0]_vars

====
